---- MODULE Spec2Model ----
(***************************************************************************)
(* examplens: a DNS server that answers for statically configured zones    *)
(* and forwards every other query (src/src/main.rs).                       *)
(*                                                                         *)
(* The model follows main(): the configuration document is deserialized    *)
(* into Records (nested BTreeMaps keyed by DNSName), the two sockets are   *)
(* bound, generate_catalog builds one in-memory authority per zone and the *)
(* root forwarder, the sockets are registered and the server answers       *)
(* queries by routing them through the catalog.                            *)
(*                                                                         *)
(* A domain name is the sequence of its labels in presentation order       *)
(* (<<"b","a">> is b.a, <<>> is the root).  Labels keep the spelling of    *)
(* the configuration; "A" is the upper-case spelling of "a".  Presentation *)
(* text is a sequence of tokens, each a label or the separator ".".        *)
(***************************************************************************)
EXTENDS Integers, Sequences, FiniteSets, TLC

\* ------------------------------------------------------------------ bounds
\* zone keys a configuration document may hold
MaxZones == 2
\* entries a configuration document may hold, all zones together
MaxEntries == 2

\* ------------------------------------------------------------------ names
\* zone keys a configuration document may spell: the root, a zone, the same zone in
\* upper case, a zone below it and a sibling
ApexNames == {<<>>, <<"a">>, <<"A">>, <<"a", "a">>, <<"b">>}

\* entry names a configuration document may spell: at, below and beside those zones
EntryNames == {<<"a">>, <<"A">>, <<"a", "a">>, <<"b", "a">>, <<"b">>}

Addresses == {"10.0.0.1", "10.0.0.2"}

RecordTypes == {"A", "SOA"}

\* Label::to_lowercase
to_lowercase(l) == IF l = "A" THEN "a" ELSE l

\* LowerName::new: every label lower-cased
LowerName(n) == [i \in 1..Len(n) |-> to_lowercase(n[i])]

\* names a query may carry: the configured ones and names one label below them
QueryNames ==
  {LowerName(n) : n \in ApexNames \cup EntryNames} \cup {<<"a", "a", "a">>, <<"b", "a", "a">>}

\* rank of a label in the case-insensitive byte order of Label::cmp
LabelRank(l) ==
  CASE to_lowercase(l) = "a" -> 1
    [] to_lowercase(l) = "administrator" -> 2
    [] to_lowercase(l) = "b" -> 3
    [] OTHER -> 4

\* Name::cmp_with_f, labels compared from the root side, then by length: -1, 0, 1
RECURSIVE cmp_labels(_, _, _)
cmp_labels(x, y, i) ==
  IF i > Len(x) \/ i > Len(y)
    THEN (IF Len(x) < Len(y) THEN -1 ELSE IF Len(x) > Len(y) THEN 1 ELSE 0)
    ELSE LET l == LabelRank(x[Len(x) + 1 - i])
             r == LabelRank(y[Len(y) + 1 - i])
         IN IF l < r THEN -1 ELSE IF l > r THEN 1 ELSE cmp_labels(x, y, i + 1)

\* Ord for DNSName (derived, so Name::cmp): case-insensitive
NameCmp(x, y) == cmp_labels(x, y, 1)

\* Eq for DNSName (derived, so Name::eq): case-insensitive
NameEq(x, y) == NameCmp(x, y) = 0

\* Name::base_name: the name without its leftmost label
base_name(n) == IF Len(n) > 0 THEN Tail(n) ELSE n

\* Name::zone_of: x is an ancestor of y or equal to it
zone_of(x, y) ==
  /\ Len(x) <= Len(y)
  /\ LowerName(SubSeq(y, Len(y) - Len(x) + 1, Len(y))) = LowerName(x)

\* Display for Name: labels joined by ".", the root is "."
RECURSIVE join_labels(_)
join_labels(n) ==
  IF Len(n) = 0 THEN <<>>
  ELSE IF Len(n) = 1 THEN <<n[1]>>
  ELSE <<n[1], ".">> \o join_labels(Tail(n))

Name_to_string(n) == IF Len(n) = 0 THEN <<".">> ELSE join_labels(n)

\* the parser of Name::from_utf8: a "." closes the label read so far, and an empty label is an error
RECURSIVE parse_labels(_, _, _)
parse_labels(text, label, name) ==
  IF Len(text) = 0
    THEN [ok |-> TRUE, name |-> IF Len(label) = 0 THEN name ELSE name \o label]
  ELSE IF Head(text) = "."
    THEN IF Len(label) = 0
           THEN [ok |-> FALSE, name |-> name]
           ELSE parse_labels(Tail(text), <<>>, name \o label)
  ELSE parse_labels(Tail(text), label \o <<Head(text)>>, name)

Name_from_utf8(text) ==
  IF text = <<".">> THEN [ok |-> TRUE, name |-> <<>>]
  ELSE parse_labels(text, <<>>, <<>>)

\* ------------------------------------------------------------------ BTreeMap
EmptyMap == [k \in {} |-> {}]

\* BTreeMap::insert with keys compared by spelling
BTreeInsertSensitive(m, k, v) == (k :> v) @@ m

\* BTreeMap::insert under DNSName's Ord: an equal key keeps its spelling and takes the new value
BTreeInsert(m, k, v) ==
  IF \E k2 \in DOMAIN m : NameEq(k2, k)
    THEN [k2 \in DOMAIN m |-> IF NameEq(k2, k) THEN v ELSE m[k2]]
    ELSE (k :> v) @@ m

\* the first key of a non-empty set of DNSName keys in BTreeMap iteration order
FirstName(keys) == CHOOSE k \in keys : \A k2 \in keys : NameCmp(k, k2) <= 0

\* ------------------------------------------------------------------ record sets
\* RecordType's numeric order
RecordTypeCode(t) == IF t = "A" THEN 1 ELSE 6

\* RrKey::new
RrKey_new(name, record_type) == <<LowerName(name), record_type>>

\* Ord for RrKey: by name, then by record type
RrKeyLess(x, y) ==
  \/ NameCmp(x[1], y[1]) < 0
  \/ NameCmp(x[1], y[1]) = 0 /\ RecordTypeCode(x[2]) < RecordTypeCode(y[2])

FirstRrKey(keys) == CHOOSE k \in keys : \A k2 \in keys \ {k} : RrKeyLess(k, k2)

\* RecordSet::new(name, record_type, serial): the third argument is the serial, the ttl starts at 0
RecordSet_new(name, record_type, serial) ==
  [name |-> name, record_type |-> record_type, ttl |-> 0, serial |-> serial, records |-> <<>>]

\* Record::with(name, rr_type, ttl) followed by set_data
Record_with(name, rr_type, ttl, rdata) ==
  [name |-> name, rr_type |-> rr_type, ttl |-> ttl, rdata |-> rdata]

\* RecordSet::insert(record, serial): [ok, rrset]
RecordSet_insert(rs, record, serial) ==
  LET stale == /\ record.rr_type = "SOA"
               /\ Len(rs.records) > 0
               /\ record.rdata.serial <= rs.records[1].rdata.serial
      kept == IF record.rr_type = "SOA" THEN <<>> ELSE rs.records
      same == {i \in 1..Len(kept) : kept[i].rdata = record.rdata}
  IN IF stale THEN [ok |-> FALSE, rrset |-> rs]
     ELSE IF \E i \in same : kept[i] = record THEN [ok |-> FALSE, rrset |-> rs]
     ELSE [ok |-> TRUE,
           rrset |-> [rs EXCEPT !.ttl = record.ttl,
                                !.serial = serial,
                                !.records = IF same = {}
                                              THEN Append(kept, record)
                                              ELSE [i \in 1..Len(kept) |->
                                                      IF i \in same THEN record ELSE kept[i]]]]

\* ------------------------------------------------------------------ record synthesis
\* generate_a with the record's ttl left at the 0 a fresh RecordSet starts with
generate_a_zero_ttl(name, address) ==
  RecordSet_insert(RecordSet_new(name, "A", 30),
                   Record_with(name, "A", 0, [a |-> address]), 1).rrset

\* generate_a: one A record set at name holding the single address
generate_a(name, address) ==
  RecordSet_insert(RecordSet_new(name, "A", 30),
                   Record_with(name, "A", 30, [a |-> address]), 1).rrset

\* generate_soa: [ok, rrset]; ok is FALSE when the unwrap of the administrator name panics
generate_soa(domain) ==
  LET rname == Name_from_utf8(<<"administrator", ".">> \o Name_to_string(domain))
      rdata == [mname |-> domain, rname |-> rname.name, serial |-> 1, refresh |-> 60,
                retry |-> 1, expire |-> 120, minimum |-> 30]
  IN [ok |-> rname.ok,
      rrset |-> RecordSet_insert(RecordSet_new(domain, "SOA", 30),
                                 Record_with(domain, "SOA", 30, rdata), 1).rrset]

\* ------------------------------------------------------------------ InMemoryAuthority
\* InnerInMemory::upsert keyed by the owner name alone
InnerUpsertByName(records, record, serial) ==
  LET key == <<LowerName(record.name), "ANY">>
      rrset == IF key \in DOMAIN records THEN records[key]
               ELSE RecordSet_new(record.name, record.rr_type, serial)
      ins == RecordSet_insert([rrset EXCEPT !.records = <<>>, !.record_type = record.rr_type],
                              record, serial)
  IN [ok |-> ins.ok, records |-> (key :> ins.rrset) @@ records]

\* InnerInMemory::upsert: the record joins the record set of its (name, type); only a CNAME
\* excludes other types at its label, and the zone holds none
InnerUpsert(records, record, serial) ==
  LET key == RrKey_new(record.name, record.rr_type)
      rrset == IF key \in DOMAIN records THEN records[key]
               ELSE RecordSet_new(record.name, record.rr_type, serial)
      ins == RecordSet_insert(rrset, record, serial)
  IN [ok |-> ins.ok, records |-> (key :> ins.rrset) @@ records]

\* the loops of InMemoryAuthority::new: every record of every record set, in key order
RECURSIVE upsert_records(_, _, _, _)
upsert_records(inner, rrset, i, serial) ==
  IF i > Len(rrset.records) THEN [ok |-> TRUE, records |-> inner]
  ELSE LET r == InnerUpsert(inner, rrset.records[i], serial)
       IN IF r.ok THEN upsert_records(r.records, rrset, i + 1, serial)
          ELSE [ok |-> FALSE, records |-> r.records]

RECURSIVE upsert_rrsets(_, _, _, _)
upsert_rrsets(inner, records, todo, serial) ==
  IF todo = {} THEN [ok |-> TRUE, records |-> inner]
  ELSE LET key == FirstRrKey(todo)
           r == upsert_records(inner, records[key], 1, serial)
       IN IF r.ok THEN upsert_rrsets(r.records, records, todo \ {key}, serial)
          ELSE [ok |-> FALSE, records |-> r.records]

\* InMemoryAuthority::new: [ok, authority]; an Err when no SOA record is among the records
InMemoryAuthority_new(origin, records, zone_type, allow_axfr) ==
  LET soas == {k \in DOMAIN records : k[2] = "SOA" /\ Len(records[k].records) > 0}
      serial == records[FirstRrKey(soas)].records[1].rdata.serial
      inner == upsert_rrsets(EmptyMap, records, DOMAIN records, serial)
      empty == [kind |-> "InMemory", origin |-> origin, zone_type |-> zone_type,
                allow_axfr |-> allow_axfr, records |-> EmptyMap]
  IN IF soas = {} THEN [ok |-> FALSE, authority |-> empty]
     ELSE [ok |-> inner.ok, authority |-> [empty EXCEPT !.records = inner.records]]

\* ForwardAuthority::try_from_config: the zone type passed in is not kept
ForwardAuthority_try_from_config(origin, zone_type, config) ==
  [kind |-> "Forward", origin |-> origin, zone_type |-> "Forward",
   name_servers |-> config.name_servers, options |-> config.options]

\* ------------------------------------------------------------------ Catalog
\* Catalog::default: a registry of (key, authority) pairs
Catalog_default == {}

\* Catalog::upsert (HashMap::insert): the authority registered at the key is replaced
Catalog_upsert(catalog, name, authority) ==
  {e \in catalog : e.key # name} \cup {[key |-> name, authority |-> authority]}

\* Catalog::find looking at the exact name and at the root only
RECURSIVE find_exact_or_root(_, _)
find_exact_or_root(catalog, name) ==
  IF \E e \in catalog : e.key = name
    THEN [found |-> TRUE, authority |-> (CHOOSE e \in catalog : e.key = name).authority]
  ELSE IF Len(name) > 0 THEN find_exact_or_root(catalog, <<>>)
  ELSE [found |-> FALSE]

\* Catalog::find: the authority at the name, else the one found for its base name
RECURSIVE find(_, _)
find(catalog, name) ==
  IF \E e \in catalog : e.key = name
    THEN [found |-> TRUE, authority |-> (CHOOSE e \in catalog : e.key = name).authority]
  ELSE IF Len(name) > 0 THEN find(catalog, base_name(name))
  ELSE [found |-> FALSE]

\* Catalog::lookup: the response to a query for (name, record type)
lookup(catalog, name, record_type) ==
  LET hit == find(catalog, LowerName(name))
      key == RrKey_new(name, record_type)
  IN IF ~hit.found THEN [rcode |-> "Refused"]
     ELSE IF hit.authority.kind = "Forward"
       THEN [rcode |-> "Forwarded", name |-> LowerName(name), record_type |-> record_type,
             name_servers |-> hit.authority.name_servers]
     ELSE IF key \in DOMAIN hit.authority.records
       THEN [rcode |-> "NoError", origin |-> hit.authority.origin,
             answers |-> hit.authority.records[key].records]
     ELSE IF \E k \in DOMAIN hit.authority.records : k[1] = key[1]
       THEN [rcode |-> "NoError", origin |-> hit.authority.origin, answers |-> <<>>]
     ELSE [rcode |-> "NXDomain", origin |-> hit.authority.origin, answers |-> <<>>]

\* ------------------------------------------------------------------ generate_catalog
\* what read_system_conf may return
SystemConfs ==
  {[readable |-> FALSE, name_servers |-> <<>>, options |-> "none"],
   [readable |-> TRUE, name_servers |-> <<"192.0.2.53">>, options |-> "resolv.conf"]}

\* the inner loop of generate_catalog: per entry, the SOA of the domain and the A of the entry
RECURSIVE zone_records(_, _, _, _)
zone_records(domain, recs, todo, rc) ==
  IF todo = {} THEN [ok |-> TRUE, rc |-> rc]
  ELSE LET name == FirstName(todo)
           soa == generate_soa(domain)
           a_rec == generate_a(name, recs[name])
           rc1 == (RrKey_new(domain, "SOA") :> soa.rrset) @@ rc
           rc2 == (RrKey_new(name, a_rec.record_type) :> a_rec) @@ rc1
       IN IF ~soa.ok THEN [ok |-> FALSE, rc |-> rc]
          ELSE zone_records(domain, recs, todo \ {name}, rc2)

\* the outer loop of generate_catalog: one Primary authority per domain, registered at the domain
RECURSIVE register_zones(_, _, _)
register_zones(records, todo, catalog) ==
  IF todo = {} THEN [ok |-> TRUE, catalog |-> catalog]
  ELSE LET domain == FirstName(todo)
           rc == zone_records(domain, records[domain], DOMAIN records[domain], EmptyMap)
           made == InMemoryAuthority_new(LowerName(domain), rc.rc, "Primary", FALSE)
       IN IF ~rc.ok \/ ~made.ok THEN [ok |-> FALSE, catalog |-> catalog]
          ELSE register_zones(records, todo \ {domain},
                              Catalog_upsert(catalog, LowerName(domain), made.authority))

\* the tail of generate_catalog with the forwarder left out
register_no_forwarder(catalog, resolv) == catalog

\* the tail of generate_catalog: the forwarder built from the system configuration, at the root
register_forwarder(catalog, resolv) ==
  Catalog_upsert(catalog, LowerName(<<>>),
                 ForwardAuthority_try_from_config(<<>>, "Primary",
                   [name_servers |-> resolv.name_servers, options |-> resolv.options]))

\* generate_catalog: [status, catalog]; status is "ok", "err" (the ? on read_system_conf),
\* "panic_zone" (an unwrap while a zone is built) or "panic_forwarder" (the expect); boot tells
\* whether the forwarder can be built
generate_catalog(records, resolv, boot) ==
  LET zones == register_zones(records, DOMAIN records, Catalog_default)
  IN IF ~zones.ok THEN [status |-> "panic_zone", catalog |-> Catalog_default]
     ELSE IF ~resolv.readable THEN [status |-> "err", catalog |-> Catalog_default]
     ELSE IF ~boot THEN [status |-> "panic_forwarder", catalog |-> Catalog_default]
     ELSE [status |-> "ok", catalog |-> register_forwarder(zones.catalog, resolv)]

\* ------------------------------------------------------------------ main
VARIABLES
  pc,        \* the statement of main about to run, or how main ended
  records,   \* Records: DNSName -> (DNSName -> Ipv4Addr), as deserialized so far
  cur,       \* the zone whose entries the deserializer is reading
  replaced,  \* a zone key equal to an earlier one has been inserted
  tcp,       \* the TCP listener: "unbound", "bound", "registered"
  udp,       \* the UDP socket: "unbound", "bound", "registered"
  catalog,   \* the Catalog handed to ServerFuture::new
  response   \* the response to the last query served

vars == <<pc, records, cur, replaced, tcp, udp, catalog, response>>

NoZone == [open |-> FALSE, apex |-> <<>>, entries |-> EmptyMap]

NoResponse == [rcode |-> "None"]

\* main with the catalog generated before the sockets are bound
main_after_catalog_first(step) ==
  CASE step = "open" -> "from_reader"
    [] step = "from_reader" -> "generate_catalog"
    [] step = "generate_catalog" -> "bind_tcp"
    [] step = "bind_tcp" -> "bind_udp"
    [] step = "bind_udp" -> "register_socket"
    [] step = "register_socket" -> "register_listener"
    [] step = "register_listener" -> "block_until_done"
    [] OTHER -> "exit_ok"

\* main with the sockets registered before the catalog is generated
main_after_register_first(step) ==
  CASE step = "open" -> "from_reader"
    [] step = "from_reader" -> "bind_tcp"
    [] step = "bind_tcp" -> "bind_udp"
    [] step = "bind_udp" -> "register_socket"
    [] step = "register_socket" -> "register_listener"
    [] step = "register_listener" -> "generate_catalog"
    [] step = "generate_catalog" -> "block_until_done"
    [] OTHER -> "exit_ok"

\* the order of main's statements: the statement that follows a statement that succeeded
main_after(step) ==
  CASE step = "open" -> "from_reader"
    [] step = "from_reader" -> "bind_tcp"
    [] step = "bind_tcp" -> "bind_udp"
    [] step = "bind_udp" -> "generate_catalog"
    [] step = "generate_catalog" -> "register_socket"
    [] step = "register_socket" -> "register_listener"
    [] step = "register_listener" -> "block_until_done"
    [] OTHER -> "exit_ok"

\* entries deserialized so far in the whole document
EntriesRead ==
  LET RECURSIVE count(_)
      count(keys) == IF keys = {} THEN 0
                     ELSE LET k == CHOOSE x \in keys : TRUE
                          IN Cardinality(DOMAIN records[k]) + count(keys \ {k})
  IN count(DOMAIN records) + Cardinality(DOMAIN cur.entries)

Init ==
  /\ pc = "open"
  /\ records = EmptyMap
  /\ cur = NoZone
  /\ replaced = FALSE
  /\ tcp = "unbound"
  /\ udp = "unbound"
  /\ catalog = Catalog_default
  /\ response = NoResponse

\* OpenOptions::open("examplens.yaml")?
Open ==
  /\ pc = "open"
  /\ \E ok \in BOOLEAN : pc' = IF ok THEN main_after("open") ELSE "err_open"
  /\ UNCHANGED <<records, cur, replaced, tcp, udp, catalog, response>>

\* serde_yaml::from_reader, the outer map: a zone key parsed by DNSNameVisitor::visit_str
VisitZone ==
  /\ pc = "from_reader"
  /\ ~cur.open
  /\ Cardinality(DOMAIN records) < MaxZones
  /\ \E name \in ApexNames : cur' = [open |-> TRUE, apex |-> name, entries |-> EmptyMap]
  /\ UNCHANGED <<pc, records, replaced, tcp, udp, catalog, response>>

\* serde_yaml::from_reader, the inner map: one (name, address) entry of the zone being read
VisitEntry ==
  /\ pc = "from_reader"
  /\ cur.open
  /\ EntriesRead < MaxEntries
  /\ \E name \in EntryNames, address \in Addresses :
       cur' = [cur EXCEPT !.entries = BTreeInsert(cur.entries, name, address)]
  /\ UNCHANGED <<pc, records, replaced, tcp, udp, catalog, response>>

\* serde_yaml::from_reader, the outer map: the zone read is inserted at its key
EndZone ==
  /\ pc = "from_reader"
  /\ cur.open
  /\ records' = BTreeInsert(records, cur.apex, cur.entries)
  /\ replaced' = (replaced \/ \E k \in DOMAIN records : NameEq(k, cur.apex))
  /\ cur' = NoZone
  /\ UNCHANGED <<pc, tcp, udp, catalog, response>>

\* DNSNameVisitor::visit_str on a malformed name: the error ends main
VisitMalformed ==
  /\ pc = "from_reader"
  /\ pc' = "err_from_reader"
  /\ UNCHANGED <<records, cur, replaced, tcp, udp, catalog, response>>

\* serde_yaml::from_reader returns the Records
EndDocument ==
  /\ pc = "from_reader"
  /\ ~cur.open
  /\ pc' = main_after("from_reader")
  /\ UNCHANGED <<records, cur, replaced, tcp, udp, catalog, response>>

\* TcpListener::bind(sa).await?
BindTcp ==
  /\ pc = "bind_tcp"
  /\ \E ok \in BOOLEAN :
       /\ pc' = IF ok THEN main_after("bind_tcp") ELSE "err_bind"
       /\ tcp' = IF ok THEN "bound" ELSE tcp
  /\ UNCHANGED <<records, cur, replaced, udp, catalog, response>>

\* UdpSocket::bind(sa).await?
BindUdp ==
  /\ pc = "bind_udp"
  /\ \E ok \in BOOLEAN :
       /\ pc' = IF ok THEN main_after("bind_udp") ELSE "err_bind"
       /\ udp' = IF ok THEN "bound" ELSE udp
  /\ UNCHANGED <<records, cur, replaced, tcp, catalog, response>>

\* ServerFuture::new(generate_catalog(records)?)
GenerateCatalog ==
  /\ pc = "generate_catalog"
  /\ \E resolv \in SystemConfs, boot \in BOOLEAN :
       LET made == generate_catalog(records, resolv, boot)
       IN /\ pc' = CASE made.status = "ok" -> main_after("generate_catalog")
                     [] made.status = "err" -> "err_generate_catalog"
                     [] made.status = "panic_zone" -> "panic_zone"
                     [] OTHER -> "panic_forwarder"
          /\ catalog' = made.catalog
  /\ UNCHANGED <<records, cur, replaced, tcp, udp, response>>

\* sf.register_socket(udp)
RegisterSocket ==
  /\ pc = "register_socket"
  /\ udp' = "registered"
  /\ pc' = main_after("register_socket")
  /\ UNCHANGED <<records, cur, replaced, tcp, catalog, response>>

\* sf.register_listener(tcp, 60 s)
RegisterListener ==
  /\ pc = "register_listener"
  /\ tcp' = "registered"
  /\ pc' = main_after("register_listener")
  /\ UNCHANGED <<records, cur, replaced, udp, catalog, response>>

\* a query served while main awaits block_until_done: it reads the catalog
Query ==
  /\ pc = "block_until_done"
  /\ \E name \in QueryNames, record_type \in RecordTypes :
       response' = lookup(catalog, name, record_type)
  /\ UNCHANGED <<pc, records, cur, replaced, tcp, udp, catalog>>

\* sf.block_until_done().await returns
BlockUntilDone ==
  /\ pc = "block_until_done"
  /\ \E ok \in BOOLEAN : pc' = IF ok THEN main_after("block_until_done") ELSE "err_serve"
  /\ response' = NoResponse
  /\ UNCHANGED <<records, cur, replaced, tcp, udp, catalog>>

Next ==
  \/ Open
  \/ VisitZone
  \/ VisitEntry
  \/ EndZone
  \/ VisitMalformed
  \/ EndDocument
  \/ BindTcp
  \/ BindUdp
  \/ GenerateCatalog
  \/ RegisterSocket
  \/ RegisterListener
  \/ Query
  \/ BlockUntilDone

Spec == Init /\ [][Next]_vars

\* ------------------------------------------------------------------ properties
\* main is past a generate_catalog that returned a catalog
Built == pc \in {"register_socket", "register_listener", "block_until_done", "exit_ok", "err_serve"}

\* main ended inside generate_catalog
CatalogFailed == pc \in {"err_generate_catalog", "panic_zone", "panic_forwarder"}

\* the authority registered at a zone key
AuthorityAt(apex) == (CHOOSE e \in catalog : e.key = LowerName(apex)).authority

\* the configured zone keys that are an ancestor of the name or equal to it
Covering(name) == {z \in DOMAIN records : zone_of(z, name)}

\* the zone is the most specific configured zone covering the name
Owns(z, name) == z \in Covering(name) /\ \A z2 \in Covering(name) : Len(z2) <= Len(z)

\* the response is exactly one A record with the address and TTL 30
AnswersA(r, address) ==
  /\ r.rcode = "NoError"
  /\ Len(r.answers) = 1
  /\ r.answers[1].rr_type = "A"
  /\ r.answers[1].rdata = [a |-> address]
  /\ r.answers[1].ttl = 30

\* the response is one SOA record with the fixed fields and administrator.<apex>
AnswersSOA(r, apex) ==
  /\ r.rcode = "NoError"
  /\ Len(r.answers) = 1
  /\ r.answers[1].rr_type = "SOA"
  /\ r.answers[1].rdata.serial = 1
  /\ r.answers[1].rdata.refresh = 60
  /\ r.answers[1].rdata.retry = 1
  /\ r.answers[1].rdata.expire = 120
  /\ r.answers[1].rdata.minimum = 30
  /\ LowerName(r.answers[1].rdata.rname) = <<"administrator">> \o LowerName(apex)

\* C1 as stated: for every zone and every entry of it, whatever the relation of the entry's
\* name to the zone key and to the other zone keys, the A query for the name routed through
\* the built catalog returns exactly one answer, the configured address, with TTL 30.
C1_AnyEntryAnswered ==
  Built => \A z \in DOMAIN records : \A n \in DOMAIN records[z] :
             AnswersA(lookup(catalog, n, "A"), records[z][n])

\* C1 amended: in a catalog generate_catalog returned, every entry whose zone is the most
\* specific configured zone covering its name is answered by exactly one A record holding the
\* configured address with TTL 30.
C1_OwnedEntryAnswered ==
  Built => \A z \in DOMAIN records : \A n \in DOMAIN records[z] :
             Owns(z, n) => AnswersA(lookup(catalog, n, "A"), records[z][n])

C1_Witness ==
  /\ pc = "block_until_done"
  /\ \E z \in DOMAIN records : \E n \in DOMAIN records[z] :
       /\ Owns(z, n)
       /\ ~NameEq(z, n)
       /\ response = lookup(catalog, n, "A")
       /\ AnswersA(response, records[z][n])

\* C2: for every configured zone, with any number of entries including none, generate_catalog
\* gets past the construction of the zones, and the zone registered at the zone key holds
\* exactly one SOA record set, owned by the zone key.
C2_EveryZoneHasOneSOA ==
  (Built \/ CatalogFailed) =>
    /\ pc # "panic_zone"
    /\ Built => \A z \in DOMAIN records :
         LET rrs == AuthorityAt(z).records
             soas == {k \in DOMAIN rrs : k[2] = "SOA"}
         IN Cardinality(soas) = 1 /\ \A k \in soas : k[1] = LowerName(z)

\* C3: for every configured zone, the root included, the SOA query for the zone key returns
\* serial 1, refresh 60, retry 1, expire 120, minimum 30 and the contact administrator.<apex>.
C3_ApexSOAAnswered ==
  (Built \/ CatalogFailed) =>
    /\ pc # "panic_zone"
    /\ Built => \A z \in DOMAIN records : AnswersSOA(lookup(catalog, z, "SOA"), z)

\* C4: in every catalog generate_catalog returned, a query name is routed to the Primary
\* authority of the longest configured zone key that is an ancestor of the name or equal to
\* it, and to the root forwarder, which forwards the query, when no zone key is.
C4_LongestSuffixRouting ==
  Built => \A n \in QueryNames :
    LET hit == find(catalog, n)
    IN /\ hit.found
       /\ IF Covering(n) = {}
            THEN /\ hit.authority.kind = "Forward"
                 /\ hit.authority.origin = <<>>
                 /\ \A t \in RecordTypes : lookup(catalog, n, t).rcode = "Forwarded"
            ELSE /\ hit.authority.kind = "InMemory"
                 /\ hit.authority.zone_type = "Primary"
                 /\ \E z \in Covering(n) : Owns(z, n) /\ hit.authority.origin = LowerName(z)
                 /\ \A t \in RecordTypes : lookup(catalog, n, t).rcode # "Forwarded"

C4_Witness ==
  /\ pc = "block_until_done"
  /\ {LowerName(z) : z \in DOMAIN records} = {<<"a">>, <<"a", "a">>}
  /\ find(catalog, <<"a", "a", "a">>).authority.origin = <<"a", "a">>
  /\ find(catalog, <<"b", "a">>).authority.origin = <<"a">>
  /\ response = lookup(catalog, <<"b">>, "A")
  /\ response.rcode = "Forwarded"

C7_FailsBeforeBind == CatalogFailed => tcp = "unbound" /\ udp = "unbound"

\* C7 amended: when main ends inside generate_catalog, both sockets have been bound and
\* neither has been registered with the server, so nothing was served.
C7_FailsBeforeRegister ==
  CatalogFailed => tcp = "bound" /\ udp = "bound" /\ response = NoResponse

C7_Witness == pc = "panic_zone" /\ tcp = "bound" /\ udp = "bound"

\* C9: when an entry's name equals its zone key, the zone built holds the SOA record set and
\* the A record set at that name as two record sets of their own types, one record each.
C9_ApexHoldsSOAAndA ==
  Built => \A z \in DOMAIN records : \A n \in DOMAIN records[z] :
    NameEq(n, z) =>
      LET rrs == AuthorityAt(z).records
          soa == <<LowerName(z), "SOA">>
          a == <<LowerName(z), "A">>
      IN /\ soa \in DOMAIN rrs
         /\ a \in DOMAIN rrs
         /\ rrs[soa].record_type = "SOA"
         /\ rrs[a].record_type = "A"
         /\ Len(rrs[soa].records) = 1
         /\ Len(rrs[a].records) = 1
         /\ rrs[soa].records[1].rr_type = "SOA"
         /\ rrs[a].records[1].rdata = [a |-> records[z][n]]

C9_Witness ==
  /\ Built
  /\ \E z \in DOMAIN records :
       /\ Cardinality(DOMAIN records[z]) = MaxEntries
       /\ \E n \in DOMAIN records[z] : NameEq(n, z)

\* every zone key and the root have their authority in the catalog
CatalogComplete ==
  /\ \E e \in catalog : e.key = <<>> /\ e.authority.kind = "Forward"
  /\ \A z \in DOMAIN records : \E e \in catalog : e.key = LowerName(z)

\* C10: a socket is registered, and the server serves, only with the catalog complete, and once
\* a socket is registered no step changes the catalog or the records it was built from.
C10_CatalogFrozenWhileServing ==
  [][/\ (udp' = "registered" \/ tcp' = "registered" \/ pc' = "block_until_done")
          => CatalogComplete'
     /\ (udp = "registered" \/ tcp = "registered")
          => catalog' = catalog /\ records' = records]_vars

C10_Witness ==
  /\ pc = "block_until_done"
  /\ response.rcode = "NoError"
  /\ Cardinality(catalog) > MaxZones

====
